---- MODULE Spec2Model ----
(***************************************************************************)
(* Banking API: the in-memory Database, the BankingService on top of it    *)
(* and the HTTP routes in front of it.                                     *)
(*                                                                         *)
(* Money is a Python float in the source; the model counts thousandths of  *)
(* a currency unit as integers (1000.00 is 1000000), so that the precision *)
(* validators of the schemas have something to reject.  Requests are       *)
(* served by threads that interleave between any two accesses of the       *)
(* shared Database; SeqSpec is the same program with one request at a      *)
(* time, RaceSpec has the threads work on an account id that is handed     *)
(* out while they run, and FairSpec adds fair scheduling.                  *)
(***************************************************************************)
EXTENDS Integers, Sequences, FiniteSets, TLC

\* ------------------------------------------------------------------ bounds
MaxCreates == 2
MaxNewTransfers == 2

\* the same two, for the requests checked under fair scheduling
FairMaxCreates == 1
FairMaxNewTransfers == 1

\* two request threads
Threads == {1, 2}

\* --------------------------------------------------------------- seed data
CUSTOMERS == {1, 2, 3, 4}

ACCOUNTS ==
  << [idkey |-> "id", id |-> "acc1-1234", customer_id |-> 1, balance |-> 1000000],
     [idkey |-> "id", id |-> "acc2-5678", customer_id |-> 2, balance |-> 500000],
     [idkey |-> "id", id |-> "acc3-9012", customer_id |-> 3, balance |-> 750500],
     [idkey |-> "id", id |-> "acc4-3456", customer_id |-> 4, balance |-> 2000750],
     [idkey |-> "id", id |-> "acc5-7890", customer_id |-> 1, balance |-> 250000] >>

TRANSFERS ==
  << [transaction_id |-> "txn1-1111", from_account_id |-> "acc1-1234",
      to_account_id |-> "acc2-5678", transfer_amount |-> 200000] >>

SeedIds == {ACCOUNTS[i].id : i \in 1..Len(ACCOUNTS)}

\* ------------------------------------------------------------ input spaces
\* The values f"acc-{uuid.uuid4().hex[:8]}" can take.  The id keeps 32 of
\* the uuid's random bits and create_account does not look whether it is
\* taken, so a call may produce any of them, one produced before included.
GenIds == {"acc-0000000a", "acc-0000000b"}

MissingId == "non-existent-id"

AccountIdSpace == SeedIds \cup GenIds \cup {MissingId}

\* The account ids, customer ids and amounts that requests carry.
ValidAmounts == {600000, 1000000}
InvalidAmounts == {-50000, 0, 100555, 2000000000}

\* Requests served one at a time: through the routes or straight at the
\* service (which is handed validated amounts only), on a seeded account, an
\* account that is there once it is created and one that never is; the
\* store at the start of each request is recorded in pre.
SeqInputs ==
  [layers |-> {"api", "svc"},
   ids |-> {"acc1-1234", "acc-0000000a", MissingId},
   customers |-> {1, 999},
   amounts |-> ValidAmounts \cup InvalidAmounts,
   creates |-> MaxCreates,
   newTransfers |-> MaxNewTransfers,
   sequential |-> TRUE]

\* Requests served concurrently: through the routes, on two seeded accounts
\* that the transfers share.
ConcInputs ==
  [layers |-> {"api"},
   ids |-> {"acc1-1234", "acc2-5678"},
   customers |-> {1},
   amounts |-> {600000},
   creates |-> MaxCreates,
   newTransfers |-> MaxNewTransfers,
   sequential |-> FALSE]

\* Requests served concurrently on one account that is created while they
\* run: through the routes or straight at the service, with two deposits so
\* that two dicts made for one id can differ.
RaceInputs ==
  [layers |-> {"api", "svc"},
   ids |-> {"acc-0000000a"},
   customers |-> {1},
   amounts |-> ValidAmounts,
   creates |-> MaxCreates,
   newTransfers |-> MaxNewTransfers,
   sequential |-> FALSE]

\* Requests served concurrently under fair scheduling: as ConcInputs, with
\* fewer of them.
FairInputs ==
  [layers |-> {"api"},
   ids |-> {"acc1-1234", "acc2-5678"},
   customers |-> {1},
   amounts |-> {600000},
   creates |-> FairMaxCreates,
   newTransfers |-> FairMaxNewTransfers,
   sequential |-> FALSE]

\* str(uuid.uuid4()): a whole uuid, unique by the library's contract; the
\* n-th call returns the n-th of these, all different.
UuidPool == << "uuid-1", "uuid-2", "uuid-3", "uuid-4", "uuid-5", "uuid-6" >>

None == 0
NoId == ""
NoCall == [op |-> "none", layer |-> "none", customer_id |-> 0, account_id |-> NoId,
           from_account_id |-> NoId, to_account_id |-> NoId, amount |-> 0]
NoUpdate == [obj |-> None, balance |-> 0]
NoTransfer == [transaction_id |-> NoId, from_account_id |-> NoId,
               to_account_id |-> NoId, transfer_amount |-> 0]
NoResult == [kind |-> "none", status |-> 0]
NoPre == [set |-> FALSE]

\* ------------------------------------------------------------------- state
VARIABLES
  accounts,      \* Database.accounts: account id -> the account dict (an index of heap), None when absent
  heap,          \* the account dicts, in order of allocation
  transfers,     \* Database.transfers
  lock,          \* Database.lock: the thread that holds it, None when free
  uuidCount,     \* how many transaction ids uuid4 has produced
  deposited,     \* the initial deposits of the accounts created so far, added up
  pc,            \* where each thread is
  call,          \* the request each thread serves
  from_account,  \* execute_transfer's local from_account (a dict reference)
  to_account,    \* execute_transfer's local to_account
  upd,           \* update_balance's local account and the balance it has read
  transfer,      \* execute_transfer's local transfer
  applied,       \* which of its two balance updates each thread's transfer has written
  result,        \* what the request returned
  pre            \* the store as it was when the request started

store == << accounts, heap, transfers, lock, uuidCount, deposited >>
locals == << from_account, to_account, upd, transfer, applied >>
vars == << accounts, heap, transfers, lock, uuidCount, deposited, pc, call,
           from_account, to_account, upd, transfer, applied, result, pre >>

Init ==
  /\ heap = ACCOUNTS
  /\ accounts = [a \in AccountIdSpace |->
                   IF a \in SeedIds
                   THEN CHOOSE i \in 1..Len(ACCOUNTS) : ACCOUNTS[i].id = a
                   ELSE None]
  /\ transfers = TRANSFERS
  /\ lock = None
  /\ uuidCount = 0
  /\ deposited = 0
  /\ pc = [t \in Threads |-> "idle"]
  /\ call = [t \in Threads |-> NoCall]
  /\ from_account = [t \in Threads |-> None]
  /\ to_account = [t \in Threads |-> None]
  /\ upd = [t \in Threads |-> NoUpdate]
  /\ transfer = [t \in Threads |-> NoTransfer]
  /\ applied = [t \in Threads |-> {}]
  /\ result = [t \in Threads |-> NoResult]
  /\ pre = [t \in Threads |-> NoPre]

\* ----------------------------------------------------------------- helpers
\* Database.get_account
get_account(account_id) == accounts[account_id]

\* a lookup with a default, so that every customer is found
get_customer_default(customer_id) == customer_id = customer_id

\* Database.get_customer, as the truth value the service tests
get_customer(customer_id) == customer_id \in CUSTOMERS

\* round(value, 2) on thousandths
Round2(value) == ((value + 5) \div 10) * 10

\* the schema without its precision validator
ValidAmountRangeOnly(value) ==
  /\ value > 0
  /\ value <= 1000000000

\* Field(gt=0, le=1_000_000) and the precision validator
ValidAmount(value) ==
  /\ value > 0
  /\ value <= 1000000000
  /\ Round2(value) = value

\* the exception handlers registered in main.py, and the routes' status codes
\* the handlers with the self-transfer handler answering 404
StatusCodeSelfTransfer404(op, kind) ==
  CASE kind = "AccountNotFound" -> 404
    [] kind = "CustomerNotFound" -> 404
    [] kind = "InsufficientFunds" -> 400
    [] kind = "SelfTransfer" -> 404
    [] kind = "ValidationError" -> 422
    [] kind = "ok" /\ op = "create" -> 201
    [] OTHER -> 200

StatusCode(op, kind) ==
  CASE kind = "AccountNotFound" -> 404
    [] kind = "CustomerNotFound" -> 404
    [] kind = "InsufficientFunds" -> 400
    [] kind = "SelfTransfer" -> 400
    [] kind = "ValidationError" -> 422
    [] kind = "ok" /\ op = "create" -> 201
    [] OTHER -> 200

\* the response of a request: an HTTP status only when it came through a route
Response(t, kind, data) ==
  [kind |-> kind,
   status |-> IF call[t].layer = "api" THEN StatusCode(call[t].op, kind) ELSE 0,
   data |-> data]

Finish(t, kind, data) ==
  /\ pc' = [pc EXCEPT ![t] = "done"]
  /\ result' = [result EXCEPT ![t] = Response(t, kind, data)]

Goto(t, label) ==
  /\ pc' = [pc EXCEPT ![t] = label]
  /\ UNCHANGED result

Snapshot == [set |-> TRUE, accounts |-> accounts, heap |-> heap, transfers |-> transfers]

\* t may take a request: always when requests are served concurrently, and
\* only while every other thread is idle when they are served one at a time
Turn(t, in) == in.sequential => \A u \in Threads \ {t} : pc[u] = "idle"

\* requests still to add an account, or a transfer record
PendingCreates ==
  Cardinality({t \in Threads : pc[t] \in {"route_create", "svc_create", "db_create_acquire", "db_create_store"}})
PendingTransfers ==
  Cardinality({t \in Threads : call[t].op = "transfer" /\ pc[t] \notin {"idle", "done", "add_transfer_release"}})

\* ------------------------------------------------------------ POST /accounts
CreateAccountRequest(t, in) ==
  /\ pc[t] = "idle"
  /\ Turn(t, in)
  /\ Len(heap) + PendingCreates < Len(ACCOUNTS) + in.creates
  /\ \E layer \in in.layers, c \in in.customers, d \in in.amounts :
       /\ layer = "svc" => d \in ValidAmounts
       /\ call' = [call EXCEPT ![t] = [NoCall EXCEPT !.op = "create", !.layer = layer,
                                              !.customer_id = c, !.amount = d]]
       /\ pc' = [pc EXCEPT ![t] = IF layer = "api" THEN "route_create" ELSE "svc_create"]
  /\ pre' = [pre EXCEPT ![t] = IF in.sequential THEN Snapshot ELSE NoPre]
  /\ UNCHANGED << store, locals, result >>

\* routes.create_account: the AccountCreate schema, then the service
RouteCreateAccount(t) ==
  /\ pc[t] = "route_create"
  /\ IF ~ValidAmount(call[t].amount)
     THEN Finish(t, "ValidationError", None)
     ELSE Goto(t, "svc_create")
  /\ UNCHANGED << store, locals, call, pre >>

\* the customer test that logs and goes on, its raise forgotten
SvcCreateAccountNoRaise(t) ==
  /\ pc[t] = "svc_create"
  /\ Goto(t, "db_create_acquire")
  /\ UNCHANGED << store, locals, call, pre >>

\* BankingService.create_account
SvcCreateAccount(t) ==
  /\ pc[t] = "svc_create"
  /\ IF ~get_customer(call[t].customer_id)
     THEN Finish(t, "CustomerNotFound", None)
     ELSE Goto(t, "db_create_acquire")
  /\ UNCHANGED << store, locals, call, pre >>

\* Database.create_account: with self.lock
DbCreateAcquire(t) ==
  /\ pc[t] = "db_create_acquire"
  /\ lock = None
  /\ lock' = t
  /\ Goto(t, "db_create_store")
  /\ UNCHANGED << accounts, heap, transfers, uuidCount, deposited, locals, call, pre >>

\* the id the new account gets
NewAccountIds == GenIds

\* Database.create_account: the body
DbCreateStore(t) ==
  /\ pc[t] = "db_create_store"
  /\ \E account_id \in NewAccountIds :
       LET account == [idkey |-> "account_id", id |-> account_id,
                       customer_id |-> call[t].customer_id, balance |-> call[t].amount]
       IN /\ heap' = Append(heap, account)
          /\ accounts' = [accounts EXCEPT ![account_id] = Len(heap) + 1]
          /\ upd' = [upd EXCEPT ![t] = [obj |-> Len(heap) + 1, balance |-> 0]]
          /\ deposited' = deposited + call[t].amount
  /\ Goto(t, "db_create_release")
  /\ UNCHANGED << transfers, lock, uuidCount, from_account, to_account, transfer, applied, call, pre >>

\* Database.create_account: leaving the with block, and the route's response
DbCreateRelease(t) ==
  /\ pc[t] = "db_create_release"
  /\ lock' = None
  /\ LET account == heap[upd[t].obj]
     IN Finish(t, "ok", [account_id |-> account.id, customer_id |-> account.customer_id,
                         balance |-> account.balance])
  /\ UNCHANGED << accounts, heap, transfers, uuidCount, deposited, locals, call, pre >>

\* ----------------------------------------------------------- POST /transfers
TransferRequest(t, in) ==
  /\ pc[t] = "idle"
  /\ Turn(t, in)
  /\ Len(transfers) + PendingTransfers < Len(TRANSFERS) + in.newTransfers
  /\ \E layer \in in.layers, f \in in.ids, g \in in.ids, a \in in.amounts :
       /\ layer = "svc" => a \in ValidAmounts
       /\ call' = [call EXCEPT ![t] = [NoCall EXCEPT !.op = "transfer", !.layer = layer,
                                              !.from_account_id = f, !.to_account_id = g,
                                              !.amount = a]]
       /\ pc' = [pc EXCEPT ![t] = IF layer = "api" THEN "route_transfer" ELSE "svc_fetch_from"]
  /\ pre' = [pre EXCEPT ![t] = IF in.sequential THEN Snapshot ELSE NoPre]
  /\ UNCHANGED << store, locals, result >>

\* the route's own test before it calls the service
RouteSelfTransfer(from_account_id, to_account_id) == from_account_id = to_account_id

\* the route taking the body as a plain dict, no schema applied
RouteTransferNoSchema(t) ==
  /\ pc[t] = "route_transfer"
  /\ IF RouteSelfTransfer(call[t].from_account_id, call[t].to_account_id)
     THEN Finish(t, "SelfTransfer", None)
     ELSE Goto(t, "svc_fetch_from")
  /\ UNCHANGED << store, locals, call, pre >>

\* routes.transfer_amount: the TransferRequest schema, the route's test, then the service
RouteTransfer(t) ==
  /\ pc[t] = "route_transfer"
  /\ IF ~ValidAmount(call[t].amount)
     THEN Finish(t, "ValidationError", None)
     ELSE IF RouteSelfTransfer(call[t].from_account_id, call[t].to_account_id)
     THEN Finish(t, "SelfTransfer", None)
     ELSE Goto(t, "svc_fetch_from")
  /\ UNCHANGED << store, locals, call, pre >>

\* execute_transfer: from_account = self.db.get_account(from_account_id)
SvcFetchFrom(t) ==
  /\ pc[t] = "svc_fetch_from"
  /\ from_account' = [from_account EXCEPT ![t] = get_account(call[t].from_account_id)]
  /\ Goto(t, "svc_fetch_to")
  /\ UNCHANGED << store, to_account, upd, transfer, applied, call, pre >>

\* execute_transfer: to_account = self.db.get_account(to_account_id)
SvcFetchTo(t) ==
  /\ pc[t] = "svc_fetch_to"
  /\ to_account' = [to_account EXCEPT ![t] = get_account(call[t].to_account_id)]
  /\ Goto(t, "svc_checks")
  /\ UNCHANGED << store, from_account, upd, transfer, applied, call, pre >>

\* the comparison turned round
SameAccountInverted(from_obj, to_obj) == heap[from_obj] # heap[to_obj]

\* from_account == to_account: two dicts are equal when their items are
SameAccount(from_obj, to_obj) == heap[from_obj] = heap[to_obj]

\* the destination's test raising the wrong exception
SvcChecksWrongException(t) ==
  /\ pc[t] = "svc_checks"
  /\ IF from_account[t] = None
     THEN Finish(t, "AccountNotFound", None)
     ELSE IF to_account[t] = None
     THEN Finish(t, "CustomerNotFound", None)
     ELSE IF SameAccount(from_account[t], to_account[t])
     THEN Finish(t, "SelfTransfer", None)
     ELSE Goto(t, "svc_funds")
  /\ UNCHANGED << store, locals, call, pre >>

\* execute_transfer: the two existence tests and the self-transfer test
SvcChecks(t) ==
  /\ pc[t] = "svc_checks"
  /\ IF from_account[t] = None
     THEN Finish(t, "AccountNotFound", None)
     ELSE IF to_account[t] = None
     THEN Finish(t, "AccountNotFound", None)
     ELSE IF SameAccount(from_account[t], to_account[t])
     THEN Finish(t, "SelfTransfer", None)
     ELSE Goto(t, "svc_funds")
  /\ UNCHANGED << store, locals, call, pre >>

\* the balance compared with zero instead of the amount
InsufficientFundsAgainstZero(balance, transfer_amount) == balance < 0

\* from_account["balance"] < transfer_amount
InsufficientFunds(balance, transfer_amount) == balance < transfer_amount

\* the funds test that logs and goes on, its raise forgotten
SvcFundsNoRaise(t) ==
  /\ pc[t] = "svc_funds"
  /\ Goto(t, "debit_read")
  /\ UNCHANGED << store, locals, call, pre >>

\* execute_transfer: the funds test, on the dict fetched above
SvcFunds(t) ==
  /\ pc[t] = "svc_funds"
  /\ IF InsufficientFunds(heap[from_account[t]].balance, call[t].amount)
     THEN Finish(t, "InsufficientFunds", None)
     ELSE Goto(t, "debit_read")
  /\ UNCHANGED << store, locals, call, pre >>

\* Database.update_balance, first half: account = self.accounts.get(account_id)
\* and the read of account["balance"]; with no account there is nothing to write
UpdateBalanceRead(t, account_id, label, write, skip) ==
  /\ pc[t] = label
  /\ LET account == accounts[account_id]
     IN IF account # None
        THEN /\ upd' = [upd EXCEPT ![t] = [obj |-> account, balance |-> heap[account].balance]]
             /\ Goto(t, write)
        ELSE /\ upd' = [upd EXCEPT ![t] = NoUpdate]
             /\ Goto(t, skip)
  /\ UNCHANGED << store, from_account, to_account, transfer, applied, call, pre >>

\* = written for +=
UpdateBalanceAssign(t, amount, label, next) ==
  /\ pc[t] = label
  /\ heap' = [heap EXCEPT ![upd[t].obj].balance = amount]
  /\ applied' = [applied EXCEPT ![t] = @ \cup {label}]
  /\ Goto(t, next)
  /\ UNCHANGED << accounts, transfers, lock, uuidCount, deposited, from_account, to_account,
                  upd, transfer, call, pre >>

\* Database.update_balance, second half: the store of balance + amount
UpdateBalanceWrite(t, amount, label, next) ==
  /\ pc[t] = label
  /\ heap' = [heap EXCEPT ![upd[t].obj].balance = upd[t].balance + amount]
  /\ applied' = [applied EXCEPT ![t] = @ \cup {label}]
  /\ Goto(t, next)
  /\ UNCHANGED << accounts, transfers, lock, uuidCount, deposited, from_account, to_account,
                  upd, transfer, call, pre >>

\* self.db.update_balance(from_account_id, -transfer_amount)
DebitRead(t) == UpdateBalanceRead(t, call[t].from_account_id, "debit_read", "debit_write", "credit_read")

\* the amount handed to update_balance without its minus sign
DebitWriteUnsigned(t) == UpdateBalanceWrite(t, call[t].amount, "debit_write", "credit_read")

\* the second half of the debit
DebitWrite(t) == UpdateBalanceWrite(t, 0 - call[t].amount, "debit_write", "credit_read")

\* the credit sent to a key the map does not have
CreditReadWrongKey(t) == UpdateBalanceRead(t, MissingId, "credit_read", "credit_write", "build_transfer")

\* self.db.update_balance(to_account_id, transfer_amount)
CreditRead(t) == UpdateBalanceRead(t, call[t].to_account_id, "credit_read", "credit_write", "build_transfer")

\* the credit put off: the record is made first
CreditWriteDeferred(t) ==
  /\ pc[t] = "credit_write"
  /\ Goto(t, "build_transfer")
  /\ UNCHANGED << store, locals, call, pre >>

\* the second half of the credit
CreditWrite(t) == UpdateBalanceWrite(t, call[t].amount, "credit_write", "build_transfer")

\* the transaction id made once, when the service is set up, and used for every transfer
BuildTransferOneId(t) ==
  /\ pc[t] = "build_transfer"
  /\ uuidCount' = uuidCount + 1
  /\ transfer' = [transfer EXCEPT ![t] =
                    [transaction_id |-> UuidPool[1],
                     from_account_id |-> call[t].from_account_id,
                     to_account_id |-> call[t].to_account_id,
                     transfer_amount |-> call[t].amount]]
  /\ Goto(t, "add_transfer_acquire")
  /\ UNCHANGED << accounts, heap, transfers, lock, deposited, from_account, to_account, upd, applied, call, pre >>

\* execute_transfer: transfer_id = str(uuid.uuid4()) and the Transfer object
BuildTransfer(t) ==
  /\ pc[t] = "build_transfer"
  /\ uuidCount' = uuidCount + 1
  /\ transfer' = [transfer EXCEPT ![t] =
                    [transaction_id |-> UuidPool[uuidCount + 1],
                     from_account_id |-> call[t].from_account_id,
                     to_account_id |-> call[t].to_account_id,
                     transfer_amount |-> call[t].amount]]
  /\ Goto(t, "add_transfer_acquire")
  /\ UNCHANGED << accounts, heap, transfers, lock, deposited, from_account, to_account, upd, applied, call, pre >>

\* Database.add_transfer: with self.lock
AddTransferAcquire(t) ==
  /\ pc[t] = "add_transfer_acquire"
  /\ lock = None
  /\ lock' = t
  /\ Goto(t, "add_transfer_append")
  /\ UNCHANGED << accounts, heap, transfers, uuidCount, deposited, locals, call, pre >>

\* insert(0, transfer) written for append(transfer)
AddTransferInsertFirst(t) ==
  /\ pc[t] = "add_transfer_append"
  /\ transfers' = << transfer[t] >> \o transfers
  /\ Goto(t, "add_transfer_release")
  /\ UNCHANGED << accounts, heap, lock, uuidCount, deposited, locals, call, pre >>

\* Database.add_transfer: self.transfers.append(transfer)
AddTransferAppend(t) ==
  /\ pc[t] = "add_transfer_append"
  /\ transfers' = Append(transfers, transfer[t])
  /\ Goto(t, "add_transfer_release")
  /\ UNCHANGED << accounts, heap, lock, uuidCount, deposited, locals, call, pre >>

\* the lock taken with acquire() and never given back
AddTransferNoRelease(t) ==
  /\ pc[t] = "add_transfer_release"
  /\ Finish(t, "ok", transfer[t])
  /\ UNCHANGED << store, locals, call, pre >>

\* Database.add_transfer: leaving the with block; execute_transfer returns the transfer
AddTransferRelease(t) ==
  /\ pc[t] = "add_transfer_release"
  /\ lock' = None
  /\ Finish(t, "ok", transfer[t])
  /\ UNCHANGED << accounts, heap, transfers, uuidCount, deposited, locals, call, pre >>

\* --------------------------------------------------------------- the queries
\* get_balance answering 0 for an account that is not there
GetBalanceDefault(t, in) ==
  /\ pc[t] = "idle"
  /\ Turn(t, in)
  /\ \E layer \in in.layers, a \in in.ids :
       /\ call' = [call EXCEPT ![t] = [NoCall EXCEPT !.op = "balance", !.layer = layer,
                                              !.account_id = a]]
       /\ LET account == get_account(a)
              data == [account_id |-> a,
                       current_balance |-> IF account = None THEN 0 ELSE heap[account].balance]
          IN result' = [result EXCEPT ![t] =
                          [kind |-> "ok",
                           status |-> IF layer = "api" THEN StatusCode("balance", "ok") ELSE 0,
                           data |-> data]]
  /\ pc' = [pc EXCEPT ![t] = "done"]
  /\ pre' = [pre EXCEPT ![t] = IF in.sequential THEN Snapshot ELSE NoPre]
  /\ UNCHANGED << store, locals >>

\* GET /accounts/{account_id}/balance: Database.get_balance
GetBalance(t, in) ==
  /\ pc[t] = "idle"
  /\ Turn(t, in)
  /\ \E layer \in in.layers, a \in in.ids :
       /\ call' = [call EXCEPT ![t] = [NoCall EXCEPT !.op = "balance", !.layer = layer,
                                              !.account_id = a]]
       /\ LET account == get_account(a)
              kind == IF account = None THEN "AccountNotFound" ELSE "ok"
              data == IF account = None THEN None
                      ELSE [account_id |-> a, current_balance |-> heap[account].balance]
          IN result' = [result EXCEPT ![t] =
                          [kind |-> kind,
                           status |-> IF layer = "api" THEN StatusCode("balance", kind) ELSE 0,
                           data |-> data]]
  /\ pc' = [pc EXCEPT ![t] = "done"]
  /\ pre' = [pre EXCEPT ![t] = IF in.sequential THEN Snapshot ELSE NoPre]
  /\ UNCHANGED << store, locals >>

\* the filter with its receiver half left out
TransfersOfSender(account_id) ==
  SelectSeq(transfers, LAMBDA tr : tr.from_account_id = account_id)

\* Database.get_transfers_by_account's filter
TransfersOf(account_id) ==
  SelectSeq(transfers, LAMBDA tr : tr.from_account_id = account_id \/ tr.to_account_id = account_id)

\* GET /accounts/{account_id}/transfers: Database.get_transfers_by_account
GetTransferHistory(t, in) ==
  /\ pc[t] = "idle"
  /\ Turn(t, in)
  /\ \E layer \in in.layers, a \in in.ids :
       /\ call' = [call EXCEPT ![t] = [NoCall EXCEPT !.op = "history", !.layer = layer,
                                              !.account_id = a]]
       /\ LET kind == IF accounts[a] = None THEN "AccountNotFound" ELSE "ok"
              data == IF accounts[a] = None THEN << >> ELSE TransfersOf(a)
          IN result' = [result EXCEPT ![t] =
                          [kind |-> kind,
                           status |-> IF layer = "api" THEN StatusCode("history", kind) ELSE 0,
                           data |-> data]]
  /\ pc' = [pc EXCEPT ![t] = "done"]
  /\ pre' = [pre EXCEPT ![t] = IF in.sequential THEN Snapshot ELSE NoPre]
  /\ UNCHANGED << store, locals >>

\* Database.get_accounts_by_customer: the dicts the map holds for the customer
get_accounts_by_customer(customer_id) ==
  {accounts[a] : a \in {b \in AccountIdSpace : accounts[b] # None
                                              /\ heap[accounts[b]].customer_id = customer_id}}

\* Database.get_transfers_by_customer's filter over the ids it collected
TransfersOfAccounts(customer_accounts) ==
  SelectSeq(transfers, LAMBDA tr : tr.from_account_id \in customer_accounts
                                   \/ tr.to_account_id \in customer_accounts)

\* Database.get_transfers_by_customer, called on the store directly: it reads
\* acc["id"] of every dict of the customer, and a dict made by create_account
\* has no such key
GetTransfersByCustomer(t, in) ==
  /\ pc[t] = "idle"
  /\ Turn(t, in)
  /\ \E c \in in.customers :
       /\ call' = [call EXCEPT ![t] = [NoCall EXCEPT !.op = "customer_history", !.layer = "db",
                                              !.customer_id = c]]
       /\ LET accs == get_accounts_by_customer(c)
              kind == IF c \notin CUSTOMERS THEN "AccountNotFound"
                      ELSE IF \E i \in accs : heap[i].idkey # "id" THEN "KeyError"
                      ELSE "ok"
              data == IF kind = "ok" THEN TransfersOfAccounts({heap[i].id : i \in accs})
                      ELSE << >>
          IN result' = [result EXCEPT ![t] = [kind |-> kind, status |-> 0, data |-> data]]
  /\ pc' = [pc EXCEPT ![t] = "done"]
  /\ pre' = [pre EXCEPT ![t] = IF in.sequential THEN Snapshot ELSE NoPre]
  /\ UNCHANGED << store, locals >>

\* the response has been sent: the thread takes the next request
Return(t) ==
  /\ pc[t] = "done"
  /\ pc' = [pc EXCEPT ![t] = "idle"]
  /\ call' = [call EXCEPT ![t] = NoCall]
  /\ from_account' = [from_account EXCEPT ![t] = None]
  /\ to_account' = [to_account EXCEPT ![t] = None]
  /\ upd' = [upd EXCEPT ![t] = NoUpdate]
  /\ transfer' = [transfer EXCEPT ![t] = NoTransfer]
  /\ applied' = [applied EXCEPT ![t] = {}]
  /\ result' = [result EXCEPT ![t] = NoResult]
  /\ pre' = [pre EXCEPT ![t] = NoPre]
  /\ UNCHANGED store

Step(t, in) ==
  \/ CreateAccountRequest(t, in)
  \/ RouteCreateAccount(t)
  \/ SvcCreateAccount(t)
  \/ DbCreateAcquire(t)
  \/ DbCreateStore(t)
  \/ DbCreateRelease(t)
  \/ TransferRequest(t, in)
  \/ RouteTransfer(t)
  \/ SvcFetchFrom(t)
  \/ SvcFetchTo(t)
  \/ SvcChecks(t)
  \/ SvcFunds(t)
  \/ DebitRead(t)
  \/ DebitWrite(t)
  \/ CreditRead(t)
  \/ CreditWrite(t)
  \/ BuildTransfer(t)
  \/ AddTransferAcquire(t)
  \/ AddTransferAppend(t)
  \/ AddTransferRelease(t)
  \/ GetBalance(t, in)
  \/ GetTransferHistory(t, in)
  \/ GetTransfersByCustomer(t, in)
  \/ Return(t)

Next == \E t \in Threads : Step(t, ConcInputs)

Spec == Init /\ [][Next]_vars

\* one request at a time
SeqNext == \E t \in Threads : Step(t, SeqInputs)

SeqSpec == Init /\ [][SeqNext]_vars

\* the steps of a request that is under way, its waits for the lock apart
Running(t) ==
  \/ RouteCreateAccount(t)
  \/ SvcCreateAccount(t)
  \/ DbCreateStore(t)
  \/ DbCreateRelease(t)
  \/ RouteTransfer(t)
  \/ SvcFetchFrom(t)
  \/ SvcFetchTo(t)
  \/ SvcChecks(t)
  \/ SvcFunds(t)
  \/ DebitRead(t)
  \/ DebitWrite(t)
  \/ CreditRead(t)
  \/ CreditWrite(t)
  \/ BuildTransfer(t)
  \/ AddTransferAppend(t)
  \/ AddTransferRelease(t)

\* the two with self.lock statements
AcquiresLock(t) == DbCreateAcquire(t) \/ AddTransferAcquire(t)

\* concurrent requests under fair scheduling: a thread that can run does run,
\* and a thread waiting for the lock gets it if it is free again and again
FairNext == \E t \in Threads : Step(t, FairInputs)

FairSpec ==
  /\ Init
  /\ [][FairNext]_vars
  /\ \A t \in Threads : WF_vars(Running(t)) /\ SF_vars(AcquiresLock(t))

\* concurrent requests around an account id that create_account hands out
RaceNext == \E t \in Threads : Step(t, RaceInputs)

RaceSpec == Init /\ [][RaceNext]_vars

\* ------------------------------------------------------- reading the store
Exists(account_id) == accounts[account_id] # None
Balance(account_id) == heap[accounts[account_id]].balance
StoredIds == {a \in AccountIdSpace : Exists(a)}

PreExists(t, account_id) == pre[t].accounts[account_id] # None
PreBalance(t, account_id) == pre[t].heap[pre[t].accounts[account_id]].balance

\* the accounts, their balances and the log are as they were when t's request started
StoreAsBefore(t) ==
  /\ accounts = pre[t].accounts
  /\ heap = pre[t].heap
  /\ transfers = pre[t].transfers

\* no request is in flight
Quiescent == \A t \in Threads : pc[t] \in {"idle", "done"}

RECURSIVE SumOver(_, _)
SumOver(f, S) ==
  IF S = {} THEN 0
  ELSE LET x == CHOOSE y \in S : TRUE IN f[x] + SumOver(f, S \ {x})

\* the balances of the accounts in the store, added up
SumBalances == SumOver([a \in StoredIds |-> Balance(a)], StoredIds)
PreSumBalances(t) ==
  LET ids == {a \in AccountIdSpace : PreExists(t, a)}
  IN SumOver([a \in ids |-> PreBalance(t, a)], ids)
SeedSum == SumOver([i \in 1..Len(ACCOUNTS) |-> ACCOUNTS[i].balance], 1..Len(ACCOUNTS))

\* what the records of log add to the balance of account_id
RECURSIVE NetEffect(_, _)
NetEffect(account_id, log) ==
  IF log = << >> THEN 0
  ELSE (IF Head(log).to_account_id = account_id THEN Head(log).transfer_amount ELSE 0)
       - (IF Head(log).from_account_id = account_id THEN Head(log).transfer_amount ELSE 0)
       + NetEffect(account_id, Tail(log))

\* the records added since construction
NewTransfers == SubSeq(transfers, Len(TRANSFERS) + 1, Len(transfers))

SeedBalance(account_id) ==
  ACCOUNTS[CHOOSE i \in 1..Len(ACCOUNTS) : ACCOUNTS[i].id = account_id].balance

\* t has answered a transfer that reached the service's logic with two
\* accounts that were in the store when it started
TransferDone(t) ==
  /\ pc[t] = "done"
  /\ call[t].op = "transfer"
  /\ pre[t].set
  /\ ValidAmount(call[t].amount)

\* ---------------------------------------------------------------------- C1
\* C1: a transfer between two different existing accounts, of an amount the
\* sender's balance covers, run with nothing interleaved, succeeds; the
\* sender's balance is the amount lower, the receiver's the amount higher,
\* and the log has exactly one more record, from the sender to the receiver
\* over the amount, which is the value returned.
C1_TransferSuccess ==
  \A t \in Threads :
    LET A == call[t].from_account_id
        B == call[t].to_account_id
        a == call[t].amount
    IN (/\ TransferDone(t)
        /\ A # B
        /\ PreExists(t, A)
        /\ PreExists(t, B)
        /\ PreBalance(t, A) >= a)
       => /\ result[t].kind = "ok"
          /\ accounts = pre[t].accounts
          /\ Balance(A) = PreBalance(t, A) - a
          /\ Balance(B) = PreBalance(t, B) + a
          /\ \A x \in StoredIds \ {A, B} : Balance(x) = PreBalance(t, x)
          /\ transfers = Append(pre[t].transfers, result[t].data)
          /\ result[t].data.from_account_id = A
          /\ result[t].data.to_account_id = B
          /\ result[t].data.transfer_amount = a

\* a transfer of the sender's whole balance to an account created before has succeeded
C1_Witness ==
  \E t \in Threads :
    /\ TransferDone(t)
    /\ result[t].kind = "ok"
    /\ call[t].from_account_id = "acc1-1234"
    /\ call[t].to_account_id = "acc-0000000a"
    /\ Balance("acc1-1234") = 0

\* ---------------------------------------------------------------------- C2
\* the mutating steps of the store a thread is inside
InCreateAccount(t) == pc[t] \in {"db_create_store", "db_create_release"}
InUpdateBalancePair(t) == pc[t] \in {"debit_write", "credit_read", "credit_write"}
InAddTransfer(t) == pc[t] \in {"add_transfer_append", "add_transfer_release"}
InMutatingStep(t) == InCreateAccount(t) \/ InUpdateBalancePair(t) \/ InAddTransfer(t)

\* C2: a request inside createAccount, inside the debit/credit updateBalance
\* pair of a transfer or inside addTransfer holds the store lock, so no two
\* requests are inside mutating steps at the same time.
C2_MutatingStepsExclusive ==
  \A t \in Threads :
    InMutatingStep(t)
      => /\ lock = t
         /\ \A u \in Threads \ {t} : ~InMutatingStep(u)

\* ---------------------------------------------------------------------- C3
\* C3: once every concurrent transfer has finished, the balance of an account
\* is its starting balance plus the credits minus the debits of the transfers
\* that succeeded (the records added to the log).  Stated of the seeded
\* accounts, which no account creation touches.
C3_NoLostUpdate ==
  Quiescent =>
    \A a \in SeedIds : Balance(a) = SeedBalance(a) + NetEffect(a, NewTransfers)

\* ---------------------------------------------------------------------- C4
\* C4: once the concurrent transfers that debit an account have finished, its
\* balance is not negative.
C4_NoOverdraft ==
  Quiescent => \A a \in StoredIds : Balance(a) >= 0

\* ---------------------------------------------------------------------- C5
\* C5: with one request at a time, a successful transfer leaves the sum of
\* the balances as it was, and between requests the sum is the seeded sum
\* plus the initial deposits of the accounts created since.
C5_Conservation ==
  /\ \A t \in Threads :
       (TransferDone(t) /\ result[t].kind = "ok") => SumBalances = PreSumBalances(t)
  /\ Quiescent => SumBalances = SeedSum + deposited

\* ---------------------------------------------------------------------- C6
\* C6: with one request at a time, in every state, every balance is >= 0.
C6_NonNegative == \A a \in StoredIds : Balance(a) >= 0

\* a transfer has emptied its sender, and an account has been created
C6_Witness ==
  /\ \E t \in Threads : TransferDone(t) /\ result[t].kind = "ok"
                        /\ Balance(call[t].from_account_id) = 0
  /\ Len(heap) > Len(ACCOUNTS)

\* ---------------------------------------------------------------------- C7
\* C7: a transfer between two different existing accounts of more than the
\* sender's balance fails with InsufficientFunds, and every balance and the
\* log are afterwards as they were before.
C7_InsufficientFunds ==
  \A t \in Threads :
    LET A == call[t].from_account_id
        B == call[t].to_account_id
    IN (/\ TransferDone(t)
        /\ A # B
        /\ PreExists(t, A)
        /\ PreExists(t, B)
        /\ call[t].amount > PreBalance(t, A))
       => /\ result[t].kind = "InsufficientFunds"
          /\ StoreAsBefore(t)

\* a transfer of more than the balance of a created account has been refused
C7_Witness ==
  \E t \in Threads :
    /\ TransferDone(t)
    /\ call[t].from_account_id = "acc-0000000a"
    /\ call[t].to_account_id = "acc1-1234"
    /\ PreExists(t, "acc-0000000a")
    /\ call[t].amount > PreBalance(t, "acc-0000000a")
    /\ result[t].kind = "InsufficientFunds"

\* ---------------------------------------------------------------------- C8
\* C8: a transfer from an existing account to itself fails with
\* SelfTransfer, whatever the amount (more than the balance included), at
\* the route and in the service, and changes no balance and adds no record.
C8_SelfTransfer ==
  \A t \in Threads :
    (/\ TransferDone(t)
     /\ call[t].from_account_id = call[t].to_account_id
     /\ PreExists(t, call[t].from_account_id))
    => /\ result[t].kind = "SelfTransfer"
       /\ StoreAsBefore(t)

\* the service has refused a transfer of an account to itself of more than its balance
C8_Witness ==
  \E t \in Threads :
    /\ TransferDone(t)
    /\ call[t].layer = "svc"
    /\ call[t].from_account_id = call[t].to_account_id
    /\ PreExists(t, call[t].from_account_id)
    /\ call[t].amount > PreBalance(t, call[t].from_account_id)
    /\ result[t].kind = "SelfTransfer"

\* ---------------------------------------------------------------------- C9
\* t's transfer names an account that was not in the store
NamesMissingAccount(t) ==
  \/ ~PreExists(t, call[t].from_account_id)
  \/ ~PreExists(t, call[t].to_account_id)

NotFoundUnchanged(t) ==
  /\ result[t].kind = "AccountNotFound"
  /\ call[t].layer = "api" => result[t].status = 404
  /\ StoreAsBefore(t)

\* C9 as claimed: a transfer request that names an account not in the store
\* fails with AccountNotFound (404) and changes nothing, also when from and
\* to are the same id.
C9_NotFoundFirst ==
  \A t \in Threads :
    (TransferDone(t) /\ NamesMissingAccount(t)) => NotFoundUnchanged(t)

\* C9 amended: a transfer request with a valid amount that names an account
\* not in the store fails with AccountNotFound (404) and changes nothing when
\* from and to differ, and also when they are equal and the call is made on
\* the service; a request through the route whose from and to are equal
\* fails with SelfTransfer (400) before any account is looked up.
C9_NotFound ==
  \A t \in Threads :
    (TransferDone(t) /\ NamesMissingAccount(t))
    => IF call[t].layer = "api" /\ call[t].from_account_id = call[t].to_account_id
       THEN /\ result[t].kind = "SelfTransfer"
            /\ result[t].status = 400
            /\ StoreAsBefore(t)
       ELSE NotFoundUnchanged(t)

\* the route has answered 404 to a transfer to an account that is not in the store
C9_Witness ==
  \E t \in Threads :
    /\ TransferDone(t)
    /\ call[t].layer = "api"
    /\ call[t].from_account_id = "acc1-1234"
    /\ call[t].to_account_id = MissingId
    /\ result[t].kind = "AccountNotFound"
    /\ result[t].status = 404

\* --------------------------------------------------------------------- C10
\* C10: createAccount for an existing customer and a valid amount returns an
\* account whose balance is the amount and whose id was the id of no account
\* in the store, and every account that was in the store is still the same
\* account with the same balance.
C10_FreshAccountId ==
  \A t \in Threads :
    (/\ pc[t] = "done"
     /\ call[t].op = "create"
     /\ pre[t].set
     /\ ValidAmount(call[t].amount)
     /\ call[t].customer_id \in CUSTOMERS)
    => /\ result[t].kind = "ok"
       /\ result[t].data.balance = call[t].amount
       /\ ~PreExists(t, result[t].data.account_id)
       /\ \A a \in AccountIdSpace :
            PreExists(t, a) => /\ accounts[a] = pre[t].accounts[a]
                               /\ Balance(a) = PreBalance(t, a)

\* --------------------------------------------------------------------- C11
\* t has answered an account creation that reached the service's logic
CreateDone(t) ==
  /\ pc[t] = "done"
  /\ call[t].op = "create"
  /\ pre[t].set
  /\ ValidAmount(call[t].amount)

\* C11: createAccount for a customer id that is not in the customer map
\* fails with CustomerNotFound, and the account map, the balances and the
\* log are afterwards as they were before.
C11_CustomerNotFound ==
  \A t \in Threads :
    (CreateDone(t) /\ call[t].customer_id \notin CUSTOMERS)
    => /\ result[t].kind = "CustomerNotFound"
       /\ StoreAsBefore(t)

\* customer 999 has been refused an account, after an account had been created
C11_Witness ==
  \E t \in Threads :
    /\ CreateDone(t)
    /\ call[t].customer_id = 999
    /\ result[t].kind = "CustomerNotFound"
    /\ Len(heap) > Len(ACCOUNTS)

\* --------------------------------------------------------------------- C12
\* C12: every account dict, seeded or created, current or replaced, has a
\* customer_id that is a key of the customer map.
C12_AccountsHaveCustomers ==
  \A i \in 1..Len(heap) : heap[i].customer_id \in CUSTOMERS

\* an account has been created, and customer 999 has asked for one
C12_Witness ==
  /\ \E a \in GenIds : Exists(a) /\ heap[accounts[a]].customer_id \in CUSTOMERS
  /\ \E t \in Threads : /\ pc[t] = "done"
                        /\ call[t].op = "create"
                        /\ call[t].layer = "svc"
                        /\ call[t].customer_id = 999
                        /\ result[t].kind = "CustomerNotFound"

\* --------------------------------------------------------------------- C13
\* t is in a transfer that has passed every test of execute_transfer and is
\* appending its record
AppendsRecord(t) ==
  /\ pc[t] = "add_transfer_append"
  /\ pc'[t] = "add_transfer_release"
  /\ call[t].op = "transfer"
  /\ transfers' = Append(transfers, transfer[t])
  /\ transfer[t].from_account_id = call[t].from_account_id
  /\ transfer[t].to_account_id = call[t].to_account_id
  /\ transfer[t].transfer_amount = call[t].amount

\* C13: under any interleaving the log only grows at its end: a step leaves
\* it as it is or appends one record, that of a transfer which then returns
\* success; no record is removed, moved or changed.
C13_AppendOnly ==
  [][/\ \/ transfers' = transfers
        \/ \E t \in Threads : AppendsRecord(t)
     /\ \A t \in Threads :
          (pc[t] = "add_transfer_release" /\ pc'[t] = "done")
            => /\ result'[t].kind = "ok"
               /\ \E i \in 1..Len(transfers) : transfers[i] = result'[t].data]_vars

\* two transfers running at the same time have both appended their records
C13_Witness ==
  /\ Len(transfers) = Len(TRANSFERS) + 2
  /\ SubSeq(transfers, 1, Len(TRANSFERS)) = TRANSFERS
  /\ \A t \in Threads : call[t].op = "transfer" /\ pc[t] \in {"add_transfer_release", "done"}

\* --------------------------------------------------------------------- C14
\* C14: no two records of the log, the seeded ones included, have the same
\* transaction_id.
C14_UniqueTransactionIds ==
  \A i, j \in 1..Len(transfers) :
    transfers[i].transaction_id = transfers[j].transaction_id => i = j

\* the log holds the seeded record and two records of concurrent transfers
C14_Witness ==
  /\ Len(transfers) = Len(TRANSFERS) + 2
  /\ transfers[1].transaction_id = "txn1-1111"
  /\ \A t \in Threads : call[t].op = "transfer" /\ result[t].kind = "ok"

\* --------------------------------------------------------------------- C15
\* t has answered a balance or a history query
QueryDone(t) ==
  /\ pc[t] = "done"
  /\ call[t].op \in {"balance", "history"}
  /\ pre[t].set

\* C15: a balance or history query for an account id that is not in the
\* store fails with AccountNotFound (404 through the routes); it returns no
\* default balance and no empty list.
C15_QueryNotFound ==
  \A t \in Threads :
    (QueryDone(t) /\ ~PreExists(t, call[t].account_id))
    => /\ result[t].kind = "AccountNotFound"
       /\ call[t].layer = "api" => result[t].status = 404
       /\ StoreAsBefore(t)

\* a balance query has been refused for an id that no account has yet,
\* while a created account is in the store
C15_Witness ==
  \E t \in Threads :
    /\ QueryDone(t)
    /\ call[t].op = "balance"
    /\ call[t].account_id = "acc-0000000a"
    /\ ~Exists("acc-0000000a")
    /\ Exists("acc-0000000b")
    /\ result[t].kind = "AccountNotFound"

\* --------------------------------------------------------------------- C16
Involves(record, account_id) ==
  record.from_account_id = account_id \/ record.to_account_id = account_id

\* where the records of answer stand in log, one place each, in rising order
RECURSIVE IsSubsequenceAt(_, _, _)
IsSubsequenceAt(answer, log, from) ==
  IF answer = << >> THEN TRUE
  ELSE \E k \in from..Len(log) :
         /\ log[k] = Head(answer)
         /\ IsSubsequenceAt(Tail(answer), log, k + 1)

\* C16: the history of an account in the store is the log's records in
\* which the account is sender or receiver, each once and in the log's
\* order, the seeded ones and the new ones, and no other record.
C16_HistoryExact ==
  \A t \in Threads :
    (QueryDone(t) /\ call[t].op = "history" /\ PreExists(t, call[t].account_id))
    => LET X == call[t].account_id
           answer == result[t].data
       IN /\ result[t].kind = "ok"
          /\ \A i \in 1..Len(answer) : Involves(answer[i], X)
          /\ IsSubsequenceAt(answer, transfers, 1)
          /\ Len(answer) = Cardinality({k \in 1..Len(transfers) : Involves(transfers[k], X)})

\* the history of acc1-1234 holds the seeded record, a record it sent and a
\* record it received, while the log holds no other record
C16_Witness ==
  \E t \in Threads :
    /\ QueryDone(t)
    /\ call[t].op = "history"
    /\ call[t].account_id = "acc1-1234"
    /\ Len(result[t].data) = 3
    /\ result[t].data[1].transaction_id = "txn1-1111"
    /\ \E i \in 2..3 : result[t].data[i].to_account_id = "acc1-1234"
    /\ \E i \in 2..3 : result[t].data[i].from_account_id = "acc1-1234"

\* --------------------------------------------------------------------- C17
\* an amount in thousandths that is not in 0 < value <= 1,000,000 or has a
\* third decimal place
BadAmount(value) ==
  \/ value <= 0
  \/ value > 1000 * 1000000
  \/ value % 10 # 0

ErrorKinds ==
  {"AccountNotFound", "CustomerNotFound", "InsufficientFunds", "SelfTransfer",
   "ValidationError"}

\* C18: a request through the routes ends either in success or in one error
\* kind of the taxonomy; AccountNotFound and CustomerNotFound are answered
\* 404, InsufficientFunds and SelfTransfer 400, a successful account creation
\* 201 and every other success 200.
C18_StatusMapping ==
  \A t \in Threads :
    (pc[t] = "done" /\ call[t].layer = "api")
    => /\ result[t].kind \in ErrorKinds \cup {"ok"}
       /\ result[t].kind \in {"AccountNotFound", "CustomerNotFound"}
            => result[t].status = 404
       /\ result[t].kind \in {"InsufficientFunds", "SelfTransfer"}
            => result[t].status = 400
       /\ (result[t].kind = "ok" /\ call[t].op = "create")
            => result[t].status = 201
       /\ (result[t].kind = "ok" /\ call[t].op # "create")
            => result[t].status = 200

\* a self-transfer request has been answered 400 after an account was created
\* and a transfer was executed
C18_Witness ==
  /\ \E t \in Threads :
       /\ pc[t] = "done"
       /\ call[t].layer = "api"
       /\ call[t].op = "transfer"
       /\ result[t].kind = "SelfTransfer"
       /\ result[t].status = 400
  /\ Len(heap) > Len(ACCOUNTS)
  /\ Len(transfers) > Len(TRANSFERS)

\* --------------------------------------------------------------------- C19
\* this step is the debit or the credit of t's transfer, on account_id
UpdatesBalanceOf(t, account_id) ==
  /\ call[t].op = "transfer"
  /\ \/ /\ pc[t] = "debit_write"
        /\ pc'[t] = "credit_read"
        /\ call[t].from_account_id = account_id
     \/ /\ pc[t] = "credit_write"
        /\ pc'[t] = "build_transfer"
        /\ call[t].to_account_id = account_id

\* C19: with one request at a time, no step removes an account, and a step
\* changes the balance of an existing account only as the debit or the credit
\* of a transfer that names the account; account creation, the queries and
\* every refused request leave every existing balance as it was.
C19_BalanceFrame ==
  [][\A a \in AccountIdSpace :
       Exists(a) =>
         /\ accounts'[a] # None
         /\ heap'[accounts'[a]].balance # Balance(a)
              => \E t \in Threads : UpdatesBalanceOf(t, a)]_vars

\* --------------------------------------------------------------------- C20
\* the ids of the accounts the store holds for a customer
AccountsOfCustomer(customer_id) ==
  {a \in AccountIdSpace : Exists(a) /\ heap[accounts[a]].customer_id = customer_id}

\* C20: a customer-history query for an existing customer returns exactly
\* the log records whose sender or receiver is one of the customer's
\* accounts, in log order, also after accounts have been created for the
\* customer; for a customer id not in the customer map it fails with the
\* not-found error.
C20_CustomerHistory ==
  \A t \in Threads :
    (/\ pc[t] = "done"
     /\ call[t].op = "customer_history"
     /\ pre[t].set)
    => IF call[t].customer_id \in CUSTOMERS
       THEN /\ result[t].kind = "ok"
            /\ result[t].data =
                 SelectSeq(transfers,
                           LAMBDA tr : \E a \in AccountsOfCustomer(call[t].customer_id) :
                                         Involves(tr, a))
       ELSE result[t].kind = "AccountNotFound"

\* --------------------------------------------------------------------- C21
\* C21: with requests coming through the routes (and the service handed
\* validated amounts only), in every reachable state every record of the log
\* has a transfer_amount greater than 0 and at most 1,000,000.
C21_LoggedAmountInRange ==
  \A i \in 1..Len(transfers) :
    /\ transfers[i].transfer_amount > 0
    /\ transfers[i].transfer_amount <= 1000 * 1000000

\* a request through the route has added a record of 1000.00 to the log
C21_Witness ==
  \E t \in Threads :
    /\ pc[t] = "done"
    /\ call[t].op = "transfer"
    /\ call[t].layer = "api"
    /\ result[t].kind = "ok"
    /\ result[t].data.transfer_amount = 1000000
    /\ \E i \in (Len(TRANSFERS) + 1)..Len(transfers) : transfers[i] = result[t].data

\* --------------------------------------------------------------------- C22
\* t is in one of the two update_balance calls of its transfer
InUpdateBalance(t) == pc[t] \in {"debit_read", "debit_write", "credit_read", "credit_write"}

\* C22: under every interleaving, a transfer that has passed the existence
\* tests finds both its accounts in the map for as long as it is in its two
\* update_balance calls, and neither call takes the branch that does
\* nothing: the debit goes from its read to its write and so does the credit.
C22_NoOpUnreachable ==
  [][\A t \in Threads :
       /\ InUpdateBalance(t)
            => /\ accounts[call[t].from_account_id] # None
               /\ accounts[call[t].to_account_id] # None
       /\ (pc[t] = "debit_read" /\ pc'[t] # pc[t]) => pc'[t] = "debit_write"
       /\ (pc[t] = "credit_read" /\ pc'[t] # pc[t]) => pc'[t] = "credit_write"]_vars

\* a transfer has applied its debit and its credit and built its record
\* while the other thread was creating an account
C22_Witness ==
  \E t \in Threads, u \in Threads :
    /\ pc[t] = "add_transfer_acquire"
    /\ call[t].op = "transfer"
    /\ call[u].op = "create"
    /\ pc[u] = "db_create_release"

\* --------------------------------------------------------------------- C23
\* C23: in every reachable state, every record of the log names a sender and
\* a receiver that are two different account ids, both keys of the account
\* map.
C23_LogReferentialIntegrity ==
  \A i \in 1..Len(transfers) :
    /\ transfers[i].from_account_id # transfers[i].to_account_id
    /\ Exists(transfers[i].from_account_id)
    /\ Exists(transfers[i].to_account_id)

\* --------------------------------------------------------------------- C24
BothUpdates == {"debit_write", "credit_write"}

\* t's record is in the log
Recorded(t) == \E i \in 1..Len(transfers) : transfers[i] = transfer[t]

\* C24: under every interleaving, the step that appends a transfer's record
\* is taken only after the transfer has written both its debit and its
\* credit, so in every state in which a transfer's record is in the log
\* neither of its two balance updates is still to come.
C24_RecordAfterEffect ==
  [][\A t \in Threads :
       /\ (pc[t] = "add_transfer_append" /\ pc'[t] # pc[t]) => applied[t] = BothUpdates
       /\ Recorded(t)' => applied'[t] = BothUpdates]_vars

\* a record is in the log while the other thread's transfer has written its
\* debit and not yet its credit
C24_Witness ==
  \E t \in Threads, u \in Threads :
    /\ Recorded(t)
    /\ pc[t] = "add_transfer_release"
    /\ pc[u] \in {"credit_read", "credit_write"}
    /\ applied[u] = {"debit_write"}
    /\ ~Recorded(u)

\* --------------------------------------------------------------------- C25
\* where a thread is while it holds the lock
LockedSections ==
  {"db_create_store", "db_create_release", "add_transfer_append", "add_transfer_release"}

\* the lock is held by exactly the threads inside create_account's or
\* add_transfer's with block
LockHeldInsideOnly ==
  \A t \in Threads : lock = t <=> pc[t] \in LockedSections

\* the lock is taken only when free, by a thread entering one of the two
\* with blocks, and given back only by its holder leaving one
LockSteps ==
  /\ (lock' # lock /\ lock' # None)
       => /\ lock = None
          /\ pc[lock'] \in {"db_create_acquire", "add_transfer_acquire"}
  /\ (lock' # lock /\ lock' = None)
       => /\ pc[lock] \in {"db_create_release", "add_transfer_release"}
          /\ pc'[lock] = "done"

\* a query can be answered whoever holds the lock
ReadersNeverWait ==
  \A t \in Threads :
    pc[t] = "idle" => /\ ENABLED GetBalance(t, FairInputs)
                      /\ ENABLED GetTransferHistory(t, FairInputs)

\* C25: the lock is taken only in create_account and add_transfer, only when
\* it is free, and is given back when the with block is left; a balance or
\* history query is never kept waiting by it; and under fair scheduling
\* every request that has started is answered.
C25_LockDisciplineAndProgress ==
  /\ [](LockHeldInsideOnly /\ ReadersNeverWait)
  /\ [][LockSteps]_vars
  /\ \A t \in Threads : (pc[t] # "idle") ~> (pc[t] = "done")

\* one thread waits for the lock that the other holds in add_transfer
C25_Witness ==
  \E t \in Threads, u \in Threads :
    /\ pc[t] = "db_create_acquire"
    /\ pc[u] = "add_transfer_append"
    /\ lock = u

\* --------------------------------------------------------------------- C26
\* C26: with one request at a time, a transfer between two different
\* existing accounts of exactly the sender's balance succeeds and leaves the
\* sender's balance at 0; and such a transfer fails with InsufficientFunds
\* if and only if its amount is greater than the sender's balance.
C26_FundsBoundary ==
  \A t \in Threads :
    LET A == call[t].from_account_id
        B == call[t].to_account_id
    IN (/\ TransferDone(t)
        /\ A # B
        /\ PreExists(t, A)
        /\ PreExists(t, B))
       => /\ call[t].amount = PreBalance(t, A)
               => /\ result[t].kind = "ok"
                  /\ Balance(A) = 0
          /\ result[t].kind = "InsufficientFunds" <=> call[t].amount > PreBalance(t, A)

\* the whole 1000.00 of acc1-1234 has been transferred, and its balance is 0
C26_Witness ==
  \E t \in Threads :
    /\ TransferDone(t)
    /\ call[t].from_account_id = "acc1-1234"
    /\ call[t].to_account_id = "acc-0000000a"
    /\ PreExists(t, "acc-0000000a")
    /\ call[t].amount = PreBalance(t, "acc1-1234")
    /\ result[t].kind = "ok"
    /\ Balance("acc1-1234") = 0

====
